---- MODULE Spec2Model ----
(***************************************************************************)
(* SQLiteDataConverter (src/src/gnn_reco/data/sqlite_dataconverter.py):    *)
(* parallel extraction of I3 files into temporary SQLite databases by a    *)
(* pool of workers, followed by the merge of the temporary databases into  *)
(* one database.                                                           *)
(***************************************************************************)
EXTENDS Integers, Sequences, FiniteSets, Bags, TLC

\* ------------------------------------------------------------------ bounds
MaxFiles == 2
MaxWorkers == 2
MaxDictSize == 2
MaxRecords == 2
MaxPulses == 1
MaxFaults == 1
MaxIds == 1

\* np.arange(0,99999999,1): the identifier domain is 0 .. 99999998
IdDomain == 99999999

Pulsemap == "SRTInIcePulses"

\* The keys of the retro extractor's output: none for a data frame without
\* RETRO, osc_weight alone for a Monte Carlo frame without RETRO, the
\* reconstruction and osc_weight for a Monte Carlo frame with RETRO.
RetroOutputs == { {}, {"osc_weight"}, {"zenith_retro", "osc_weight"} }

TruthKeys == {"energy", "sim_type"}
FeatureKeys == {"charge", "dom_x"}

\* ----------------------------------------------------------------- helpers
Min(a, b) == IF a < b THEN a ELSE b

Range(s) == { s[k] : k \in DOMAIN s }

\* The permutations of 1..n a shuffle is drawn from: the identity and the
\* rotation by one place.
Shuffles(n) == { [k \in 1..n |-> k], [k \in 1..n |-> (k % n) + 1] }

RECURSIVE SeqToBag(_)
SeqToBag(s) ==
    IF s = <<>> THEN EmptyBag ELSE SetToBag({Head(s)}) (+) SeqToBag(Tail(s))

RECURSIVE SeqSum(_)
SeqSum(s) == IF s = <<>> THEN 0 ELSE Head(s) + SeqSum(Tail(s))

\* Variant: every section starts at the head of the list.
array_split_start_at_head(n, w, i) == 0

\* np.array_split of a sequence of n elements into w sections: section i
\* (0-based) starts at offset i*(n div w) + min(i, n mod w) and holds
\* n div w elements, plus one for the first n mod w sections.
array_split_start(n, w, i) == i * (n \div w) + Min(i, n % w)
array_split_len(n, w, i) == (n \div w) + (IF i < n % w THEN 1 ELSE 0)

array_split(s, w, i) ==
    SubSeq(s, array_split_start(Len(s), w, i) + 1,
              array_split_start(Len(s), w, i) + array_split_len(Len(s), w, i))

\* Variant: every worker is handed the whole identifier domain.
event_nos_unsplit(w, i) == [start |-> 0, len |-> IdDomain]

\* np.array_split(np.arange(0,IdDomain,1), w)[i], kept as an interval
event_nos_split(w, i) ==
    [start |-> array_split_start(IdDomain, w, i),
     len   |-> array_split_len(IdDomain, w, i)]

\* ------------------------------------------------------------- DataFrames
\* A pandas DataFrame: its columns and the bag of its rows (the index is
\* never used: ignore_index = True, index = False).
EmptyDataFrame == [columns |-> {}, rows |-> EmptyBag]

\* DataFrame.append(other, ignore_index = True, sort = True)
df_append(df, other) ==
    [columns |-> df.columns \cup other.columns, rows |-> df.rows (+) other.rows]

df_len(df) == BagCardinality(df.rows)

\* Variant: an extraction without entries gives one padding row.
apply_event_no_padded(keys, values, event_no_list, event_counter) ==
    [columns |-> keys \cup {"event_no"},
     rows |-> SeqToBag([k \in DOMAIN (IF values = <<>> THEN <<0>> ELSE values)
                          |-> [event_no |-> event_no_list.start + event_counter,
                               data |-> k]])]

\* Variant: the pulse map rows are tagged with the identifier that follows.
apply_event_no_features_late(keys, values, event_no_list, event_counter) ==
    [columns |-> keys \cup {"event_no"},
     rows |-> SeqToBag([k \in DOMAIN values |->
                 [event_no |-> event_no_list.start + event_counter
                                  + (IF keys = FeatureKeys THEN 1 ELSE 0),
                  data |-> values[k]]])]

\* apply_event_no: one row per entry of the extraction, each tagged with
\* event_no_list[event_counter].
apply_event_no(keys, values, event_no_list, event_counter) ==
    [columns |-> keys \cup {"event_no"},
     rows |-> SeqToBag([k \in DOMAIN values |->
                 [event_no |-> event_no_list.start + event_counter,
                  data |-> values[k]]])]

\* event_no_list[event_counter] raises IndexError past the end of the list
event_no_in_range(event_no_list, event_counter) ==
    event_counter < event_no_list.len

\* The extractors: truths, features, retros of one physics frame.
\* The feature extractor returns lists (empty when the frame has no pulse).
truth_extractor(frame) == [sim_type |-> frame.file]
feature_extractor(frame) ==
    [dom_x |-> [none |-> FALSE, list |-> [k \in 1..frame.pulses |-> k]]]
retro_extractor(frame) == frame.retro

\* features['dom_x'] != None; the extractor's dom_x is always a list
is_empty(features) == IF ~features.dom_x.none THEN FALSE ELSE TRUE

\* ---------------------------------------------------------------- SQLite
\* A database file is a function from table names to tables; a table has
\* its columns, whether event_no is its primary key or indexed, and the bag
\* of its rows.
NoTables == <<>>

EventNos(rows) == { r.event_no : r \in BagToSet(rows) }

HasDuplicateEventNo(rows) ==
    \E a, b \in BagToSet(rows) :
        a.event_no = b.event_no /\ (a # b \/ CopiesIn(a, rows) > 1)

\* Variant: the columns of the frame that the table lacks are left out.
to_sql_drops_columns(db, key, df) ==
    IF key \notin DOMAIN db
    THEN [ok |-> TRUE,
          db |-> (key :> [pk |-> FALSE, index |-> FALSE,
                          columns |-> df.columns, rows |-> df.rows]) @@ db]
    ELSE IF db[key].pk /\ HasDuplicateEventNo(db[key].rows (+) df.rows)
         THEN [ok |-> FALSE, db |-> db]
    ELSE [ok |-> TRUE, db |-> [db EXCEPT ![key].rows = @ (+) df.rows]]

\* DataFrame.to_sql(key, engine, index = False, if_exists = 'append'):
\* creates the table from the frame when it is missing; otherwise inserts
\* the rows, which fails when the frame has a column the table lacks or
\* when a primary key would repeat (the insert is one transaction).
to_sql(db, key, df) ==
    IF key \notin DOMAIN db
    THEN [ok |-> TRUE,
          db |-> (key :> [pk |-> FALSE, index |-> FALSE,
                          columns |-> df.columns, rows |-> df.rows]) @@ db]
    ELSE IF ~(df.columns \subseteq db[key].columns)
         THEN [ok |-> FALSE, db |-> db]
    ELSE IF db[key].pk /\ HasDuplicateEventNo(db[key].rows (+) df.rows)
         THEN [ok |-> FALSE, db |-> db]
    ELSE [ok |-> TRUE, db |-> [db EXCEPT ![key].rows = @ (+) df.rows]]

\* Variant: the file is named by the worker alone.
shard_name_by_worker(id, output_count) == <<id, 0>>

\* save_to_sql: the temporary database worker-<id>-<output_count>.db
shard_name(id, output_count) == <<id, output_count>>

save_to_sql(files, feature_big, truth_big, retro_big, id, output_count) ==
    LET name == shard_name(id, output_count)
        db0 == IF name \in DOMAIN files THEN files[name] ELSE NoTables
        t == to_sql(db0, "truth", truth_big)
        r == IF df_len(retro_big) > 0 THEN to_sql(t.db, "RetroReco", retro_big)
             ELSE [ok |-> TRUE, db |-> t.db]
        f == to_sql(r.db, Pulsemap, feature_big)
    IN  [ok |-> t.ok /\ r.ok /\ f.ok,
         files |-> (name :> (IF ~t.ok THEN db0
                             ELSE IF ~r.ok THEN t.db
                             ELSE f.db)) @@ files]

\* ------------------------------------------------------------------ state
VARIABLES
    config,       \* self._workers, self._max_dict_size, the number of files
                  \* found, and whether output exists under db_name (prior)
    pc,           \* the orchestrator's position in _process_files
    i3_files,     \* the I3 files, shuffled by _process_files
    gcd_files,    \* the GCD file of each I3 file, in the same order
    settings,     \* the settings of each worker, by worker id
    worker,       \* the local variables of each _parallel_extraction
    dirs,         \* the directories that exist under outdir/db_name
    manifest,     \* config/i3files.csv
    shards,       \* the temporary databases in tmp, by name
    final_db      \* data/db_name.db

vars == <<config, pc, i3_files, gcd_files, settings, worker, dirs, manifest,
          shards, final_db>>

Workers == DOMAIN worker

\* The output of an earlier, completed run under the same db_name: the
\* final database and the manifest; its tmp directory was removed.
PriorTruthRow == [event_no |-> 0, data |-> [sim_type |-> 1]]

PriorDirs == {"data", "config"}

PriorManifest == [exists |-> TRUE, files |-> <<1>>]

PriorFinalDb ==
    [exists |-> TRUE,
     tables |-> ("truth" :> [pk |-> TRUE, index |-> FALSE,
                             columns |-> TruthKeys \cup {"event_no"},
                             rows |-> SetToBag({PriorTruthRow})])
                @@ (Pulsemap :> [pk |-> FALSE, index |-> TRUE,
                                 columns |-> FeatureKeys \cup {"event_no"},
                                 rows |-> EmptyBag])]

Init ==
    /\ \E n \in 1..MaxFiles, w \in 1..MaxWorkers, m \in {1, MaxDictSize} :
       \E prior \in BOOLEAN :
          config = [workers |-> w, max_dict_size |-> m, n_files |-> n,
                    prior |-> prior]
    /\ pc = "start"
    /\ i3_files = [k \in 1..config.n_files |-> k]
    /\ gcd_files = [k \in 1..config.n_files |-> k]
    /\ settings = <<>>
    /\ worker = <<>>
    /\ IF config.prior
       THEN /\ dirs = PriorDirs
            /\ manifest = PriorManifest
            /\ final_db = PriorFinalDb
       ELSE /\ dirs = {}
            /\ manifest = [exists |-> FALSE, files |-> <<>>]
            /\ final_db = [exists |-> FALSE, tables |-> NoTables]
    /\ shards = <<>>

\* ----------------------------------------------------------- orchestrator
\* Variant: an existing directory is accepted (os.makedirs, exist_ok).
create_out_directory_exist_ok(ds, d) == [ok |-> TRUE, dirs |-> ds \cup {d}]

\* create_out_directory(path): creates the directory; a run whose output
\* already exists is refused.
create_out_directory(ds, d) ==
    IF d \in ds THEN [ok |-> FALSE, dirs |-> ds]
    ELSE [ok |-> TRUE, dirs |-> ds \cup {d}]

\* pairwise_shuffle: the same permutation of both lists
pairwise_shuffle(files, gcds, p) ==
    <<[k \in DOMAIN files |-> files[p[k]]], [k \in DOMAIN gcds |-> gcds[p[k]]]>>

\* The local variables of _parallel_extraction as it starts (lines 104-111);
\* open, fresh and retro describe the I3 file being read: the frames of one
\* file give the same retro keys, known from its first frame on (fresh is
\* true until then); seen, n_saved and n_read are history: the frames
\* extracted, how many of them are saved in a temporary database, and the
\* records read.
InitialWorker ==
    [status |-> "running", u |-> 0, open |-> FALSE, fresh |-> FALSE,
     retro |-> {},
     event_counter |-> 0,
     feature_big |-> EmptyDataFrame, truth_big |-> EmptyDataFrame,
     retro_big |-> EmptyDataFrame, output_count |-> 0,
     seen |-> <<>>, n_saved |-> 0, n_read |-> 0]

\* Variant: the requested number of workers is used as it is.
worker_count_requested(requested, n_files) == requested

\* workers = min(self._workers, len(i3_files))
worker_count(requested, n_files) == Min(requested, n_files)

\* Variant: every worker is handed the whole list of GCD files.
make_settings_gcd_unsplit(files, gcds, workers) ==
    [i \in 0..(workers - 1) |->
        [file_list     |-> array_split(files, workers, i),
         id            |-> i,
         gcd_file_list |-> gcds,
         event_nos     |-> event_nos_split(workers, i)]]

\* settings (lines 62-75): the sections of the file list, of the GCD file
\* list and of the identifier domain, by worker
make_settings(files, gcds, workers) ==
    [i \in 0..(workers - 1) |->
        [file_list     |-> array_split(files, workers, i),
         id            |-> i,
         gcd_file_list |-> array_split(gcds, workers, i),
         event_nos     |-> event_nos_split(workers, i)]]

\* Variant: only the files of the first section are listed.
_save_filenames_first(files) == [exists |-> TRUE, files |-> SubSeq(files, 1, 1)]

\* _save_filenames: config/i3files.csv lists i3_files, in their order
_save_filenames(files) == [exists |-> TRUE, files |-> files]

\* _process_files up to the start of the pool; p.join() is the action join.
\* The run ends here when create_out_directory refuses.
_process_files ==
    /\ pc = "start"
    /\ LET d1 == create_out_directory(dirs, "data")
           d2 == create_out_directory(d1.dirs, "tmp")
           d3 == create_out_directory(d2.dirs, "config")
       IN  IF ~d1.ok \/ ~d2.ok \/ ~d3.ok
           THEN /\ pc' = "refused"
                /\ dirs' = IF ~d1.ok THEN dirs
                           ELSE IF ~d2.ok THEN d1.dirs ELSE d2.dirs
                /\ UNCHANGED <<i3_files, gcd_files, settings, worker, manifest>>
           ELSE \E p \in Shuffles(Len(i3_files)) :
                  LET sh == pairwise_shuffle(i3_files, gcd_files, p)
                      workers == worker_count(config.workers, Len(sh[1]))
                  IN  /\ i3_files' = sh[1]
                      /\ gcd_files' = sh[2]
                      /\ dirs' = d3.dirs
                      /\ manifest' = _save_filenames(sh[1])
                      /\ settings' = make_settings(sh[1], sh[2], workers)
                      /\ worker' = [i \in 0..(workers - 1) |-> InitialWorker]
                      /\ pc' = "join"
    /\ UNCHANGED <<config, shards, final_db>>

\* ------------------------------------------------------------------ worker
TotalRead == SeqSum([k \in 1..Cardinality(Workers) |-> worker[k - 1].n_read])

Running(w) == w \in Workers /\ worker[w].status = "running"

\* The workers ended by an exception: a file that did not open ("failed")
\* or a save_to_sql that raised ("save_failed")
Faults == { w \in Workers : worker[w].status \in {"failed", "save_failed"} }

\* The records whose read raised
BadRecords ==
    SeqSum([k \in 1..Cardinality(Workers) |->
              worker[k - 1].n_read - Len(worker[k - 1].seen)])

\* The faults of the run so far: files that did not open, saves and reads
\* that raised
FaultCount == Cardinality(Faults) + BadRecords

MayFail == FaultCount < MaxFaults

\* Variant: the buffers are saved after the last file whatever they hold.
rest_to_save_always(truth_big) == df_len(truth_big) >= 0

\* Variant: a single remaining row is not saved.
rest_to_save_off_by_one(truth_big) == df_len(truth_big) > 1

\* len(truth_big) > 0 after the last file
rest_to_save(truth_big) == df_len(truth_big) > 0

\* The next round of the loop over input_files for a worker whose locals
\* are `me`: set_files and dataio.I3File(input_files[u], "r"), which opens
\* the file or raises (the exception ends _parallel_extraction); after the
\* last file (lines 140-145) the rest of the buffers is saved.  save_to_sql
\* writes the file or raises before it has written (the file cannot be
\* created); the exception ends _parallel_extraction with its locals as
\* they are.
next_file(w, me) ==
    IF me.u < Len(settings[w].file_list)
    THEN /\ \/ worker' = [worker EXCEPT ![w] =
                              [me EXCEPT !.open = TRUE, !.fresh = TRUE]]
            \/ /\ MayFail
               /\ worker' = [worker EXCEPT ![w] =
                               [me EXCEPT !.status = "failed"]]
         /\ UNCHANGED shards
    ELSE LET saved == save_to_sql(shards, me.feature_big, me.truth_big,
                                  me.retro_big, settings[w].id,
                                  me.output_count)
         IN  IF ~rest_to_save(me.truth_big)
             THEN /\ worker' = [worker EXCEPT ![w] =
                                  [me EXCEPT !.status = "done"]]
                  /\ UNCHANGED shards
             ELSE IF ~saved.ok
             THEN /\ worker' = [worker EXCEPT ![w] =
                                  [me EXCEPT !.status = "save_failed"]]
                  /\ shards' = saved.files
             ELSE \/ /\ MayFail
                     /\ worker' = [worker EXCEPT ![w] =
                                     [me EXCEPT !.status = "save_failed"]]
                     /\ UNCHANGED shards
                  \/ /\ worker' = [worker EXCEPT ![w] =
                           [me EXCEPT !.truth_big = EmptyDataFrame,
                                      !.retro_big = EmptyDataFrame,
                                      !.feature_big = EmptyDataFrame,
                                      !.output_count = @ + 1,
                                      !.n_saved = Len(me.seen),
                                      !.status = "done"]]
                     /\ shards' = saved.files

\* _parallel_extraction starts: the first round of the loop over the files
start_extraction(w) ==
    /\ Running(w)
    /\ ~worker[w].open
    /\ worker[w].u = 0
    /\ next_file(w, worker[w])
    /\ UNCHANGED <<config, pc, i3_files, gcd_files, settings, dirs, manifest,
                   final_db>>

\* i3_file.more() and pop_physics() raises: frame = False, nothing is done
bad_record(w) ==
    /\ Running(w)
    /\ worker[w].open
    /\ TotalRead < MaxRecords
    /\ MayFail
    /\ worker' = [worker EXCEPT ![w].n_read = @ + 1]
    /\ UNCHANGED <<config, pc, i3_files, gcd_files, settings, dirs, manifest,
                   shards, final_db>>

\* Variant: the counter advances by the number of feature rows.
next_event_counter_per_row(event_counter, features) ==
    event_counter + Len(features.dom_x.list)

\* event_counter += 1
next_event_counter(event_counter, features) == event_counter + 1

\* Variant: the counter starts again with each temporary database.
event_counter_per_file(event_counter) == 0

\* Lines 135-138: the save empties the buffers and counts the temporary
\* database; event_counter is left as it is.
event_counter_after_save(event_counter) == event_counter

\* Variant: the buffers are saved one frame late.
buffer_full_late(truth_big, max_dict_size) == df_len(truth_big) > max_dict_size

\* len(truth_big) >= max_dict_size
buffer_full(truth_big, max_dict_size) == df_len(truth_big) >= max_dict_size

\* The body of the loop for one physics frame (lines 122-138).
extract_frame(w, frame) ==
    LET me == worker[w]
        st == settings[w]
        truths == truth_extractor(frame)
        features == feature_extractor(frame)
        retros == retro_extractor(frame)
        event_no == st.event_nos.start + me.event_counter
        truth == apply_event_no(TruthKeys, <<truths>>, st.event_nos,
                                me.event_counter)
        truth_big == df_append(me.truth_big, truth)
        retro_big ==
            IF Cardinality(retros) > 0
            THEN df_append(me.retro_big,
                           apply_event_no(retros, <<retros>>, st.event_nos,
                                          me.event_counter))
            ELSE me.retro_big
        feature_big ==
            IF ~is_empty(features)
            THEN df_append(me.feature_big,
                           apply_event_no(FeatureKeys, features.dom_x.list,
                                          st.event_nos, me.event_counter))
            ELSE me.feature_big
        saved == save_to_sql(shards, feature_big, truth_big, retro_big,
                             st.id, me.output_count)
        read == [me EXCEPT !.n_read = @ + 1,
                           !.fresh = FALSE,
                           !.retro = frame.retro,
                           !.seen = Append(@, [event_no |-> event_no,
                                               file |-> frame.file,
                                               gcd |-> frame.gcd,
                                               pulses |-> frame.pulses,
                                               retro |-> frame.retro])]
        raised == [read EXCEPT !.truth_big = truth_big,
                               !.retro_big = retro_big,
                               !.feature_big = feature_big,
                               !.event_counter = next_event_counter(@, features),
                               !.status = "save_failed"]
    IN  IF ~event_no_in_range(st.event_nos, me.event_counter)
        THEN /\ worker' = [worker EXCEPT ![w].status = "failed"]
             /\ UNCHANGED shards
        ELSE IF ~buffer_full(truth_big, config.max_dict_size)
        THEN /\ worker' = [worker EXCEPT ![w] =
                    [read EXCEPT !.truth_big = truth_big,
                                 !.retro_big = retro_big,
                                 !.feature_big = feature_big,
                                 !.event_counter =
                                     next_event_counter(@, features)]]
             /\ UNCHANGED shards
        ELSE IF ~saved.ok
        THEN /\ worker' = [worker EXCEPT ![w] = raised]
             /\ shards' = saved.files
        ELSE \/ /\ MayFail
                /\ worker' = [worker EXCEPT ![w] = raised]
                /\ UNCHANGED shards
             \/ /\ worker' = [worker EXCEPT ![w] =
                       [read EXCEPT !.truth_big = EmptyDataFrame,
                                    !.retro_big = EmptyDataFrame,
                                    !.feature_big = EmptyDataFrame,
                                    !.event_counter = event_counter_after_save(
                                        next_event_counter(@, features)),
                                    !.output_count = @ + 1,
                                    !.n_saved = Len(read.seen)]]
                /\ shards' = saved.files

\* i3_file.more() and pop_physics() returns a frame of input_files[u], read
\* with the GCD file set by set_files(input_files[u], gcd_files[u])
physics_frame(w) ==
    /\ Running(w)
    /\ worker[w].open
    /\ TotalRead < MaxRecords
    /\ \E pulses \in {0, MaxPulses} :
       \E retro \in (IF worker[w].fresh THEN RetroOutputs
                     ELSE {worker[w].retro}) :
          extract_frame(w, [file |-> settings[w].file_list[worker[w].u + 1],
                            gcd |-> settings[w].gcd_file_list[worker[w].u + 1],
                            pulses |-> pulses, retro |-> retro])
    /\ UNCHANGED <<config, pc, i3_files, gcd_files, settings, dirs, manifest,
                   final_db>>

\* Variant: the loop over the files does not move on from a file it ends.
end_of_file_stays(w) ==
    /\ Running(w)
    /\ worker[w].open
    /\ next_file(w, [worker[w] EXCEPT !.open = FALSE, !.fresh = FALSE,
                                      !.retro = {}])
    /\ UNCHANGED <<config, pc, i3_files, gcd_files, settings, dirs, manifest,
                   final_db>>

\* i3_file.more() is false: file_counter += 1 and the next file
end_of_file(w) ==
    /\ Running(w)
    /\ worker[w].open
    /\ next_file(w, [worker[w] EXCEPT !.open = FALSE, !.fresh = FALSE,
                                      !.retro = {}, !.u = @ + 1])
    /\ UNCHANGED <<config, pc, i3_files, gcd_files, settings, dirs, manifest,
                   final_db>>

_parallel_extraction(w) ==
    \/ start_extraction(w)
    \/ bad_record(w)
    \/ physics_frame(w)
    \/ end_of_file(w)

\* ------------------------------------------------------------------- merge
\* Variant: the merge starts without waiting for the pool.
join_no_wait ==
    /\ pc = "join"
    /\ pc' = "merge"
    /\ UNCHANGED <<config, i3_files, gcd_files, settings, worker, dirs,
                   manifest, shards, final_db>>

\* p.close(); p.join(): returns when every task of the pool has ended,
\* normally or by an exception (the result of map_async is never read).
join ==
    /\ pc = "join"
    /\ \A w \in Workers : worker[w].status # "running"
    /\ pc' = "merge"
    /\ UNCHANGED <<config, i3_files, gcd_files, settings, worker, dirs,
                   manifest, shards, final_db>>

\* glob(os.path.join(path_tmp, '*.db')): the files in any order
Orderings(S) ==
    { f \in [1..Cardinality(S) -> S] :
        \A a, b \in 1..Cardinality(S) : f[a] = f[b] => a = b }

\* The loop of _extract_column_names over db_files (lines 180-189), from
\* position k: the columns of the first RetroReco table found, [] if none.
RECURSIVE retro_columns_from(_, _, _)
retro_columns_from(files, db_files, k) ==
    IF k > Len(db_files) THEN {}
    ELSE IF "RetroReco" \in DOMAIN files[db_files[k]]
            /\ Cardinality(files[db_files[k]]["RetroReco"].columns) > 0
         THEN files[db_files[k]]["RetroReco"].columns
         ELSE retro_columns_from(files, db_files, k + 1)

_extract_column_names(files, db_files) ==
    [truth_columns     |-> files[db_files[1]]["truth"].columns,
     pulse_map_columns |-> files[db_files[1]][Pulsemap].columns,
     retro_columns     |-> retro_columns_from(files, db_files, 1)]

\* Variant: no table gets a primary key.
_create_table_no_key(db, table_name, columns, is_pulse_map) ==
    IF table_name \in DOMAIN db
    THEN [ok |-> FALSE, db |-> db]
    ELSE [ok |-> TRUE,
          db |-> (table_name :>
                    [pk |-> FALSE, index |-> is_pulse_map,
                     columns |-> columns, rows |-> EmptyBag]) @@ db]

\* Variant: CREATE TABLE IF NOT EXISTS.
_create_table_if_not_exists(db, table_name, columns, is_pulse_map) ==
    IF table_name \in DOMAIN db
    THEN [ok |-> TRUE, db |-> db]
    ELSE [ok |-> TRUE,
          db |-> (table_name :>
                    [pk |-> ("event_no" \in columns /\ ~is_pulse_map),
                     index |-> is_pulse_map,
                     columns |-> columns, rows |-> EmptyBag]) @@ db]

\* _create_table: CREATE TABLE fails when the table exists; event_no is
\* INTEGER PRIMARY KEY NOT NULL unless the table is the pulse map, which
\* gets an index on event_no instead.
_create_table(db, table_name, columns, is_pulse_map) ==
    IF table_name \in DOMAIN db
    THEN [ok |-> FALSE, db |-> db]
    ELSE [ok |-> TRUE,
          db |-> (table_name :>
                    [pk |-> ("event_no" \in columns /\ ~is_pulse_map),
                     index |-> is_pulse_map,
                     columns |-> columns, rows |-> EmptyBag]) @@ db]

\* Variant: the RetroReco table is created whatever the columns found.
has_retro_table_always(retro_columns) == Cardinality(retro_columns) >= 0

\* len(retro_columns) > 1
has_retro_table(retro_columns) == Cardinality(retro_columns) > 1

_create_empty_tables(db, truth_columns, pulse_map_columns, retro_columns) ==
    LET t == _create_table(db, "truth", truth_columns, FALSE)
        r == IF has_retro_table(retro_columns)
             THEN _create_table(t.db, "RetroReco", retro_columns, FALSE)
             ELSE [ok |-> TRUE, db |-> t.db]
        f == _create_table(r.db, Pulsemap, pulse_map_columns, TRUE)
    IN  [ok |-> t.ok /\ r.ok /\ f.ok,
         db |-> IF ~t.ok THEN db ELSE IF ~r.ok THEN t.db ELSE f.db]

\* Variant: the RetroReco table is never read.
_extract_everything_no_retro(db) ==
    [truth    |-> [columns |-> db["truth"].columns, rows |-> db["truth"].rows],
     features |-> [columns |-> db[Pulsemap].columns,
                   rows |-> db[Pulsemap].rows],
     retro    |-> EmptyDataFrame]

\* _extract_everything: the three tables of a temporary database, the
\* RetroReco table read as [] when it is missing
_extract_everything(db) ==
    [truth    |-> [columns |-> db["truth"].columns, rows |-> db["truth"].rows],
     features |-> [columns |-> db[Pulsemap].columns,
                   rows |-> db[Pulsemap].rows],
     retro    |-> IF "RetroReco" \in DOMAIN db
                  THEN [columns |-> db["RetroReco"].columns,
                        rows |-> db["RetroReco"].rows]
                  ELSE EmptyDataFrame]

\* Variant: data of length 1 is skipped too.
_submit_to_database_skips_one(db, key, data) ==
    IF df_len(data) <= 1 THEN [ok |-> TRUE, db |-> db]
    ELSE to_sql(db, key, data)

\* _submit_to_database: nothing is written for data of length 0
_submit_to_database(db, key, data) ==
    IF df_len(data) = 0 THEN [ok |-> TRUE, db |-> db]
    ELSE to_sql(db, key, data)

\* One round of the loop of _merge_temporary_databases (lines 317-321)
merge_one(db, shard) ==
    LET x == _extract_everything(shard)
        t == _submit_to_database(db, "truth", x.truth)
        f == IF t.ok THEN _submit_to_database(t.db, Pulsemap, x.features)
             ELSE t
        r == IF f.ok THEN _submit_to_database(f.db, "RetroReco", x.retro)
             ELSE f
    IN  r

\* Variant: the loop leaves out the last of db_files.
RECURSIVE _merge_temporary_databases_short(_, _, _, _, _)
_merge_temporary_databases_short(db, files, db_files, i, stop) ==
    IF i > Len(db_files) - 1 \/ i > stop
    THEN [ok |-> TRUE, db |-> db, i |-> i - 1]
    ELSE LET m == merge_one(db, files[db_files[i]])
         IN  IF ~m.ok THEN [ok |-> FALSE, db |-> m.db, i |-> i - 1]
             ELSE _merge_temporary_databases_short(m.db, files, db_files,
                                                   i + 1, stop)

\* The loop of _merge_temporary_databases from round i on, cut short after
\* round `stop` (the process is killed) or by the first failing insert.
RECURSIVE _merge_temporary_databases(_, _, _, _, _)
_merge_temporary_databases(db, files, db_files, i, stop) ==
    IF i > Len(db_files) \/ i > stop
    THEN [ok |-> TRUE, db |-> db, i |-> i - 1]
    ELSE LET m == merge_one(db, files[db_files[i]])
         IN  IF ~m.ok THEN [ok |-> FALSE, db |-> m.db, i |-> i - 1]
             ELSE _merge_temporary_databases(m.db, files, db_files, i + 1, stop)

\* os.system('rm -r %s' % path_tmp), line 165
remove_tmp(files) == <<>>

\* Lines 162-164 of _merge_databases on the temporary databases `files`,
\* listed as db_files, into the final database with tables `tables`: the
\* outcome of _create_empty_tables (made) and of the loop cut short after
\* round `stop` (m).
merge_tables(tables, files, db_files, stop) ==
    LET c == _extract_column_names(files, db_files)
        made == _create_empty_tables(tables, c.truth_columns,
                                     c.pulse_map_columns, c.retro_columns)
    IN  [made |-> made,
         m |-> _merge_temporary_databases(made.db, files, db_files, 1, stop)]

\* Variant: the tmp directory is removed also when it holds no file.
no_db_files_removes_tmp(final, ds) == [final_db |-> final, dirs |-> ds \ {"tmp"}]

\* The else branch of _merge_databases (lines 166-167): a message is
\* printed; the final database and the directories are left as they are.
no_db_files(final, ds) == [final_db |-> final, dirs |-> ds]

\* _merge_databases (lines 153-167) on the files glob returns as db_files,
\* run to its end or to the point where the process is killed: before the
\* tables are created (first disjunct), or after `stop` temporary databases
\* are merged; stop > len(db_files) is a run that is not killed.  An
\* exception of sqlite ends it too.
\* `ended` is the orchestrator's position when it does not run to its end;
\* the process is killed only while the run has had fewer than MaxFaults
\* faults (`faults` so far).
merge_databases(ended, faults) ==
    /\ \/ /\ faults < MaxFaults
          /\ DOMAIN shards # {}
          /\ pc' = ended
          /\ UNCHANGED <<final_db, shards, dirs>>
       \/ \E db_files \in Orderings(DOMAIN shards) :
            IF Len(db_files) = 0
            THEN /\ pc' = "done"
                 /\ final_db' = no_db_files(final_db, dirs).final_db
                 /\ dirs' = no_db_files(final_db, dirs).dirs
                 /\ UNCHANGED shards
            ELSE LET made == merge_tables(final_db.tables, shards,
                                          db_files, 0).made
                 IN  IF ~made.ok
                     THEN /\ pc' = ended
                          /\ final_db' = [exists |-> TRUE, tables |-> made.db]
                          /\ UNCHANGED <<shards, dirs>>
                     ELSE \E stop \in (IF faults < MaxFaults
                                       THEN 0..(Len(db_files) + 1)
                                       ELSE {Len(db_files) + 1}) :
                            LET m == merge_tables(final_db.tables, shards,
                                                  db_files, stop).m
                            IN  IF ~m.ok \/ stop <= Len(db_files)
                                THEN /\ pc' = ended
                                     /\ final_db' = [exists |-> TRUE,
                                                     tables |-> m.db]
                                     /\ UNCHANGED <<shards, dirs>>
                                ELSE /\ pc' = "done"
                                     /\ final_db' = [exists |-> TRUE,
                                                     tables |-> m.db]
                                     /\ shards' = remove_tmp(shards)
                                     /\ dirs' = dirs \ {"tmp"}
    /\ UNCHANGED <<config, i3_files, gcd_files, settings, worker, manifest>>

\* self._merge_databases() at the end of _process_files (line 83)
_merge_databases ==
    /\ pc = "merge"
    /\ merge_databases("crashed", FaultCount)

\* _merge_databases called again after a merge that did not run to its end
rerun_merge_databases ==
    /\ pc = "crashed"
    /\ merge_databases("rerun_failed", FaultCount + 1)

Next ==
    \/ _process_files
    \/ \E w \in Workers : _parallel_extraction(w)
    \/ join
    \/ _merge_databases
    \/ rerun_merge_databases

Spec == Init /\ [][Next]_vars

\* ------------------------------------------------------- a pool on its own
\* The pool of _process_files (lines 78-83) with one worker, started on
\* settings whose identifier list is short: _parallel_extraction takes
\* event_no_list from its settings (line 104) and indexes it by
\* event_counter, whatever its length.  Worker i is handed the i-th run of
\* `len` identifiers.
short_settings(files, gcds, workers, len) ==
    [i \in 0..(workers - 1) |->
        [make_settings(files, gcds, workers)[i]
            EXCEPT !.event_nos = [start |-> i * len, len |-> len]]]

PoolInit ==
    /\ \E n \in 1..MaxFiles, m \in {1, MaxDictSize} :
          config = [workers |-> 1, max_dict_size |-> m, n_files |-> n,
                    prior |-> FALSE]
    /\ pc = "join"
    /\ i3_files = [k \in 1..config.n_files |-> k]
    /\ gcd_files = [k \in 1..config.n_files |-> k]
    /\ \E len \in 1..MaxIds :
          settings = short_settings(i3_files, gcd_files,
                                    worker_count(config.workers,
                                                 Len(i3_files)), len)
    /\ worker = [i \in DOMAIN settings |-> InitialWorker]
    /\ dirs = {"data", "tmp", "config"}
    /\ manifest = _save_filenames(i3_files)
    /\ shards = <<>>
    /\ final_db = [exists |-> FALSE, tables |-> NoTables]

PoolNext ==
    \/ \E w \in Workers : _parallel_extraction(w)
    \/ join
    \/ _merge_databases

PoolSpec == PoolInit /\ [][PoolNext]_vars

\* The task runs in a process of the pool (processes = workers, line 78),
\* so a worker that can take a step takes one.
FairPoolSpec == PoolSpec /\ WF_vars(_parallel_extraction(0))

\* ---------------------------------------------------------------- claims
\* The rows of a table of the final database; none when it has no such table
TableRows(name) ==
    IF name \in DOMAIN final_db.tables THEN final_db.tables[name].rows
    ELSE EmptyBag

\* The number of rows of a bag of rows that carry event_no e
RowsOf(rows, e) ==
    BagCardinality([r \in { x \in BagToSet(rows) : x.event_no = e }
                      |-> CopiesIn(r, rows)])

SeenEventNos(w) == { worker[w].seen[k].event_no : k \in DOMAIN worker[w].seen }

\* C1: in a run with worker_count <= file_count the identifier ranges
\* handed to the workers are consecutive intervals that start at 0 and end
\* at the end of the identifier domain (pairwise disjoint, covering it), and
\* no event_no is assigned by two different workers.
C1_RangesDisjointAndCover ==
    (DOMAIN settings # {} /\ config.workers <= config.n_files) =>
        LET n == Cardinality(DOMAIN settings)
            r(i) == settings[i].event_nos
        IN  /\ n = config.workers
            /\ r(0).start = 0
            /\ \A i \in DOMAIN settings : r(i).len > 0
            /\ \A i \in DOMAIN settings :
                  (i + 1) \in DOMAIN settings =>
                      r(i + 1).start = r(i).start + r(i).len
            /\ r(n - 1).start + r(n - 1).len = IdDomain
            /\ \A i \in Workers :
                  \A e \in SeenEventNos(i) :
                      r(i).start <= e /\ e < r(i).start + r(i).len
            /\ \A i, j \in Workers :
                  i # j => SeenEventNos(i) \cap SeenEventNos(j) = {}

C1_Witness ==
    /\ config.workers <= config.n_files
    /\ \E i, j \in Workers :
          i # j /\ SeenEventNos(i) # {} /\ SeenEventNos(j) # {}

\* C2: every frame a worker extracts consumes exactly one identifier: the
\* event counter equals the number of frames extracted so far and the k-th
\* frame got the k-th identifier of the worker's range, whatever its number
\* of feature rows and whether or not it has retro data.
C2_OneIdentifierPerEvent ==
    \A w \in Workers :
        /\ worker[w].event_counter = Len(worker[w].seen)
        /\ \A k \in DOMAIN worker[w].seen :
              worker[w].seen[k].event_no = settings[w].event_nos.start + k - 1

C2_Witness ==
    \E w \in Workers :
        /\ Len(worker[w].seen) = 2
        /\ worker[w].event_counter = 2
        /\ worker[w].seen[1].pulses = 0
        /\ worker[w].seen[1].retro # {}
        /\ worker[w].seen[2].pulses > 0

\* The rows of table `table` in all the temporary databases `names`
RECURSIVE AllShardRows(_, _, _)
AllShardRows(files, names, table) ==
    IF names = {} THEN EmptyBag
    ELSE LET n == CHOOSE x \in names : TRUE
         IN  (IF table \in DOMAIN files[n] THEN files[n][table].rows
              ELSE EmptyBag)
             (+) AllShardRows(files, names \ {n}, table)

TotalEvents ==
    SeqSum([k \in 1..Cardinality(Workers) |-> Len(worker[k - 1].seen)])

TotalPulses ==
    SeqSum([k \in 1..Cardinality(Workers) |->
              SeqSum([j \in DOMAIN worker[k - 1].seen |->
                        worker[k - 1].seen[j].pulses])])

TotalShardsWritten ==
    SeqSum([k \in 1..Cardinality(Workers) |-> worker[k - 1].output_count])

\* C3: a merge that runs to its end on temporary databases whose truth rows
\* have pairwise distinct event_no, into a final database that did not
\* exist, leaves a truth table whose rows are exactly the rows of the truth
\* tables of the temporary databases, no event_no twice.
C3_MergeKeepsTruthRows ==
    [][(/\ pc = "merge" /\ pc' = "done"
        /\ DOMAIN shards # {}
        /\ ~final_db.exists
        /\ ~HasDuplicateEventNo(AllShardRows(shards, DOMAIN shards, "truth")))
       => (/\ "truth" \in DOMAIN final_db'.tables
           /\ final_db'.tables["truth"].rows
                 = AllShardRows(shards, DOMAIN shards, "truth")
           /\ ~HasDuplicateEventNo(final_db'.tables["truth"].rows))]_vars

C3_Witness ==
    /\ pc = "done"
    /\ TotalShardsWritten = 2
    /\ BagCardinality(TableRows("truth")) = 2

\* C4: when no temporary database has a RetroReco table, the merge leaves
\* the final database without a RetroReco table.
C4_NoRetroNoTable ==
    [][(/\ pc = "merge"
        /\ \A n \in DOMAIN shards : "RetroReco" \notin DOMAIN shards[n])
       => "RetroReco" \notin DOMAIN final_db'.tables]_vars

C4_Witness ==
    /\ pc = "done"
    /\ TotalShardsWritten > 0
    /\ \A w \in Workers : \A k \in DOMAIN worker[w].seen :
          worker[w].seen[k].retro = {}
    /\ "truth" \in DOMAIN final_db.tables
    /\ "RetroReco" \notin DOMAIN final_db.tables

\* C5: after the merge, an event that was saved with zero feature rows has
\* no row in the pulse map table and exactly one row in the truth table.
C5_EmptyEventRows ==
    pc = "done" =>
        \A w \in Workers : \A k \in 1..worker[w].n_saved :
            worker[w].seen[k].pulses = 0 =>
                /\ RowsOf(TableRows(Pulsemap), worker[w].seen[k].event_no) = 0
                /\ RowsOf(TableRows("truth"), worker[w].seen[k].event_no) = 1

C5_Witness ==
    /\ pc = "done"
    /\ "truth" \in DOMAIN final_db.tables
    /\ \E w \in Workers : \E k \in 1..worker[w].n_saved :
          worker[w].seen[k].pulses = 0

\* C6: no step removes a temporary database unless the rows of every
\* temporary database are in the final database after it, and a merge that
\* is cut short (also right after the tables are created) removes none.
C6_NoShardRemovedBeforeMerged ==
    [][/\ pc' = "crashed" => shards' = shards
       /\ (\E n \in DOMAIN shards : n \notin DOMAIN shards') =>
             \A n \in DOMAIN shards : \A t \in DOMAIN shards[n] :
                 /\ t \in DOMAIN final_db'.tables
                 /\ shards[n][t].rows \sqsubseteq final_db'.tables[t].rows]_vars

C6_Witness ==
    /\ pc = "crashed"
    /\ "truth" \in DOMAIN final_db.tables
    /\ TableRows("truth") = EmptyBag
    /\ DOMAIN shards # {}
    /\ Cardinality(DOMAIN shards) = TotalShardsWritten

\* C7: after a run in which every worker ended normally and the merge ran
\* to its end, the truth table has one row per event read and the pulse map
\* table one row per pulse of these events (a table that was not created
\* counts as having no rows).
C7_RowCountsMatch ==
    (pc = "done" /\ \A w \in Workers : worker[w].status = "done") =>
        /\ BagCardinality(TableRows("truth")) = TotalEvents
        /\ BagCardinality(TableRows(Pulsemap)) = TotalPulses

C7_Witness ==
    /\ pc = "done"
    /\ Cardinality(Workers) = 2
    /\ \A w \in Workers : worker[w].status = "done" /\ Len(worker[w].seen) = 1
    /\ TotalPulses > 0
    /\ BagCardinality(TableRows("truth")) = 2

\* C8: once the orchestrator is past the join no worker is running, and no
\* temporary database is created from then on.
C8_MergeAfterJoin ==
    [][(pc \in {"merge", "done", "crashed"}) =>
          (/\ \A w \in Workers : worker[w].status # "running"
           /\ (DOMAIN shards') \subseteq (DOMAIN shards))]_vars

C8_Witness ==
    /\ pc = "merge"
    /\ Cardinality(Workers) = 2
    /\ DOMAIN shards # {}

\* C9: a worker that failed (an input file did not open) makes the run end
\* in failure: the run never ends as a completed, merged run.
C9_FailurePropagates ==
    (\E w \in Workers : worker[w].status = "failed") => pc # "done"

\* C10: when output exists for db_name the run is refused before any worker
\* is started, and the final database, the temporary databases and the
\* manifest stay as they were.
C10_ExistingOutputRefused ==
    config.prior =>
        /\ pc \in {"start", "refused"}
        /\ Workers = {}
        /\ final_db = PriorFinalDb
        /\ manifest = PriorManifest
        /\ dirs = PriorDirs
        /\ shards = <<>>

C10_Witness == config.prior /\ pc = "refused"

\* C11: the file lists and the identifier domain are split into
\* min(requested workers, number of files) parts, never into more parts
\* than there are files, and every worker gets at least one file (with its
\* GCD file) and a non-empty identifier range.
C11_WorkersAtMostFiles ==
    DOMAIN settings # {} =>
        /\ Cardinality(DOMAIN settings) = Min(config.workers, config.n_files)
        /\ Cardinality(DOMAIN settings) <= config.n_files
        /\ Workers = DOMAIN settings
        /\ \A i \in DOMAIN settings :
              /\ Len(settings[i].file_list) >= 1
              /\ Len(settings[i].gcd_file_list) = Len(settings[i].file_list)
              /\ settings[i].event_nos.len > 0

C11_Witness ==
    /\ config.workers > config.n_files
    /\ Cardinality(Workers) = config.n_files
    /\ \E w \in Workers : Len(worker[w].seen) > 0

\* The integer locals of _parallel_extraction that count something:
\* event_counter, file_counter (u) and output_count; gcd_count stays 0.
Counters == {"event_counter", "u", "output_count"}

\* C12: a record whose read raises is skipped, the worker keeps running,
\* and a count of the skipped records goes up by one.
C12_SkippedRecordCounted ==
    [][\A w \in Workers :
          bad_record(w) =>
              /\ worker'[w].status = "running"
              /\ \E c \in Counters : worker'[w][c] = worker[w][c] + 1]_vars

\* C13: config/i3files.csv is written once, when no worker has been
\* started, no temporary database exists and no record has been read; it
\* lists the input files of the run, and every file a worker is given is in
\* it.
C13_ManifestBeforeExtraction ==
    [][/\ (manifest' # manifest) =>
             /\ ~manifest.exists
             /\ Workers = {}
             /\ shards = <<>>
             /\ manifest'.exists
             /\ Len(manifest'.files) = config.n_files
             /\ Range(manifest'.files) = Range(i3_files)
       /\ \A w \in DOMAIN worker' :
             /\ manifest'.exists
             /\ Range(settings'[w].file_list) \subseteq Range(manifest'.files)]_vars

C13_Witness ==
    /\ ~config.prior
    /\ manifest.exists
    /\ Len(manifest.files) = 2
    /\ Cardinality(Workers) = 2
    /\ \A w \in Workers : Len(worker[w].seen) > 0

\* C14 as stated: the RetroReco table of the final database has no primary
\* key.
C14_RetroNotPrimaryKeyed ==
    "RetroReco" \in DOMAIN final_db.tables =>
        ~final_db.tables["RetroReco"].pk

\* C14 as amended: the RetroReco table of the final database is created as
\* the truth table is, with event_no as its primary key (no event_no twice
\* in it) and no index; only the pulse map table has no primary key.
C14_RetroPrimaryKeyed ==
    /\ "RetroReco" \in DOMAIN final_db.tables =>
          /\ final_db.tables["RetroReco"].pk
          /\ ~final_db.tables["RetroReco"].index
          /\ "event_no" \in final_db.tables["RetroReco"].columns
          /\ ~HasDuplicateEventNo(final_db.tables["RetroReco"].rows)
    /\ "truth" \in DOMAIN final_db.tables => final_db.tables["truth"].pk
    /\ Pulsemap \in DOMAIN final_db.tables => ~final_db.tables[Pulsemap].pk

C14_Witness ==
    /\ pc = "done"
    /\ "RetroReco" \in DOMAIN final_db.tables
    /\ BagCardinality(TableRows("RetroReco")) = 2

TableNames == {"truth", Pulsemap, "RetroReco"}

\* The temporary databases that have a table `table`
ShardsWith(table) == { n \in DOMAIN shards : table \in DOMAIN shards[n] }

\* The union of the columns of table `table` over the temporary databases
ShardColumns(table) == UNION { shards[n][table].columns : n \in ShardsWith(table) }

C16_DivergentSchemaIsFatal ==
    [][(/\ pc = "merge"
        /\ \E t \in TableNames : \E n, m \in ShardsWith(t) :
              shards[n][t].columns # shards[m][t].columns)
       => pc' # "done"]_vars

\* The temporary databases written by worker w
WorkerShards(w) == { n \in DOMAIN shards : n[1] = settings[w].id }

\* The rows of table `table` that worker w holds: saved or in the buffer
Kept(w, table, buffer) ==
    AllShardRows(shards, WorkerShards(w), table) (+) buffer.rows

\* C17: while the temporary databases exist, the rows a worker extracted
\* are each once in its buffers or in exactly one of its temporary
\* databases; the truth buffer never stays at max_dict_size or above, the
\* three buffers are emptied together, every temporary database holds
\* between 1 and max_dict_size events, and a worker that ended normally has
\* empty buffers, so all its rows are in its temporary databases.
C17_RowsInExactlyOneShard ==
    pc \in {"join", "merge", "crashed"} =>
        \A w \in Workers :
            worker[w].status \in {"running", "done"} =>
                LET me == worker[w]
                    T == Kept(w, "truth", me.truth_big)
                    F == Kept(w, Pulsemap, me.feature_big)
                    R == Kept(w, "RetroReco", me.retro_big)
                IN  /\ Cardinality(WorkerShards(w)) = me.output_count
                    /\ df_len(me.truth_big) < config.max_dict_size
                    /\ df_len(me.truth_big) = 0 =>
                          /\ me.feature_big = EmptyDataFrame
                          /\ me.retro_big = EmptyDataFrame
                    /\ \A n \in WorkerShards(w) :
                          /\ BagCardinality(shards[n]["truth"].rows) >= 1
                          /\ BagCardinality(shards[n]["truth"].rows)
                                <= config.max_dict_size
                    /\ BagCardinality(T) = Len(me.seen)
                    /\ BagCardinality(F)
                          = SeqSum([k \in DOMAIN me.seen |-> me.seen[k].pulses])
                    /\ \A k \in DOMAIN me.seen :
                          /\ RowsOf(T, me.seen[k].event_no) = 1
                          /\ RowsOf(F, me.seen[k].event_no) = me.seen[k].pulses
                          /\ RowsOf(R, me.seen[k].event_no)
                                = IF me.seen[k].retro = {} THEN 0 ELSE 1
                    /\ \A e \in EventNos(R) : e \in SeenEventNos(w)
                    /\ me.status = "done" =>
                          /\ me.truth_big = EmptyDataFrame
                          /\ me.n_saved = Len(me.seen)

C17_Witness ==
    /\ pc = "merge"
    /\ \E w \in Workers :
          /\ worker[w].status = "done"
          /\ worker[w].output_count = 2
          /\ Cardinality(WorkerShards(w)) = 2
          /\ Len(worker[w].seen) = 2
          /\ worker[w].seen[1].pulses > 0
          /\ worker[w].seen[2].retro # {}

\* The outcome of a merge of the temporary databases, listed as db_files,
\* that is not cut short: whether it ran to its end, and the tables of the
\* final database it leaves.
MergeResult(db_files) ==
    LET run == merge_tables(final_db.tables, shards, db_files,
                            Len(db_files) + 1)
    IN  IF ~run.made.ok THEN [ok |-> FALSE, tables |-> run.made.db]
        ELSE [ok |-> run.m.ok, tables |-> run.m.db]

\* C18: for the temporary databases of a run, the final database the merge
\* leaves (tables, columns, rows) is the same for every order in which glob
\* lists them.
C18_MergeCommutes ==
    (pc = "merge" /\ DOMAIN shards # {}) =>
        \A o1, o2 \in Orderings(DOMAIN shards) :
            MergeResult(o1) = MergeResult(o2)

\* C19: _merge_databases called again after a merge that did not run to
\* its end either finds no final database and merges from the start, or
\* ends without changing the final database and the temporary databases;
\* either way no table of the final database gets more rows of an event_no
\* than the temporary databases hold.
C19_RerunAppendsNothingTwice ==
    [][(pc = "crashed") =>
          /\ final_db.exists =>
                /\ pc' = "rerun_failed"
                /\ final_db' = final_db
                /\ shards' = shards
          /\ \A t \in TableNames :
                t \in DOMAIN final_db'.tables =>
                    LET merged == final_db'.tables[t].rows
                        held == AllShardRows(shards, DOMAIN shards, t)
                    IN  \A e \in EventNos(merged) :
                            RowsOf(merged, e) <= RowsOf(held, e)]_vars

C19_Witness ==
    /\ pc = "rerun_failed"
    /\ final_db.exists
    /\ BagCardinality(TableRows("truth")) = 1
    /\ Cardinality(DOMAIN shards) = 2

\* C20: a worker whose save_to_sql raised still holds the rows it was
\* saving, and they are not dropped silently: a run that ends as completed
\* has each of them in the final database.
C20_FailedWriteKeepsRows ==
    \A w \in Workers :
        worker[w].status = "save_failed" =>
            /\ df_len(worker[w].truth_big) > 0
            /\ pc = "done" =>
                  \A e \in EventNos(worker[w].truth_big.rows) :
                      RowsOf(TableRows("truth"), e) = 1

\* The places (worker, position) of file f in the workers' file lists
FileSlots(st, f) ==
    UNION { { <<i, j>> : j \in { x \in DOMAIN st[i].file_list :
                                    st[i].file_list[x] = f } } :
            i \in DOMAIN st }

\* C21: when the settings are made, every file of the shuffled list is at
\* exactly one place of exactly one worker's file list and the workers are
\* given no other file, and the settings stay as they are from then on; a
\* worker reads its files one after the other, each opened once, the
\* frames it extracts come from the file it has open, and a worker that
\* ended normally has gone through all its files.
C21_EveryFileToOneWorker ==
    [][/\ IF DOMAIN settings # {}
          THEN settings' = settings /\ i3_files' = i3_files
          ELSE DOMAIN settings' # {} =>
                 /\ \A k \in DOMAIN i3_files' :
                       Cardinality(FileSlots(settings', i3_files'[k])) = 1
                 /\ \A i \in DOMAIN settings' :
                       Range(settings'[i].file_list) \subseteq Range(i3_files')
       /\ \A w \in Workers :
             LET me == worker[w]
                 next == worker'[w]
                 files == settings[w].file_list
             IN  /\ next.u \in {me.u, me.u + 1}
                 /\ (next.u = me.u + 1) => me.open
                 /\ (next.open /\ ~me.open) => (me.u = 0 /\ me.n_read = 0)
                 /\ next.open => next.u < Len(files)
                 /\ (Len(next.seen) > Len(me.seen)) =>
                       /\ me.open /\ next.u = me.u
                       /\ next.seen[Len(next.seen)].file = files[me.u + 1]
                 /\ (next.status = "done") =>
                       (next.u = Len(files) /\ ~next.open)]_vars

C21_Witness ==
    /\ pc = "merge"
    /\ i3_files = <<2, 1>>
    /\ Cardinality(Workers) = 2
    /\ \A w \in Workers :
          worker[w].status = "done" /\ Len(worker[w].seen) = 1

\* A worker ended by event_no_list[event_counter] raising IndexError: the
\* file it was reading is still open
HitCeiling(w) == worker[w].status = "failed" /\ worker[w].open

\* C22: a worker that meets more events than its identifier list holds
\* gives no identifier twice and none outside its list, and the run fails
\* for it: it does not end as a completed run.
C22_CeilingFailsLoudly ==
    \A w \in Workers :
        /\ \A j, k \in DOMAIN worker[w].seen :
              j # k => worker[w].seen[j].event_no # worker[w].seen[k].event_no
        /\ \A k \in DOMAIN worker[w].seen :
              /\ worker[w].seen[k].event_no >= settings[w].event_nos.start
              /\ worker[w].seen[k].event_no
                    < settings[w].event_nos.start + settings[w].event_nos.len
        /\ HitCeiling(w) => pc # "done"

\* C23: within a worker event_counter never goes down and goes up by one
\* exactly when a frame is extracted, also across a file boundary and a
\* save; the frame gets the identifier at the counter, which is above the
\* identifiers of all the frames the worker extracted before.
C23_IdentifiersIncrease ==
    [][\A w \in Workers :
          LET me == worker[w]
              next == worker'[w]
          IN  /\ next.event_counter \in {me.event_counter, me.event_counter + 1}
              /\ (Len(next.seen) = Len(me.seen)) =>
                    next.event_counter = me.event_counter
              /\ (Len(next.seen) > Len(me.seen)) =>
                    /\ next.event_counter = me.event_counter + 1
                    /\ next.seen[Len(next.seen)].event_no
                          = settings[w].event_nos.start + me.event_counter
                    /\ \A k \in DOMAIN me.seen :
                          me.seen[k].event_no
                             < next.seen[Len(next.seen)].event_no]_vars

C23_Witness ==
    \E w \in Workers :
        /\ config.max_dict_size = 1
        /\ Len(worker[w].seen) = 2
        /\ worker[w].seen[1].file # worker[w].seen[2].file
        /\ worker[w].output_count = 2
        /\ worker[w].seen[1].event_no < worker[w].seen[2].event_no

\* The event_no values of table `table` of database db; none without it
TableEventNos(db, table) ==
    IF table \in DOMAIN db THEN EventNos(db[table].rows) ELSE {}

\* C24: the rows of one frame carry one event_no: in a worker's buffers, in
\* every temporary database and in the final database each event_no of the
\* pulse map or of RetroReco is an event_no of truth.
C24_EventNoInTruth ==
    /\ \A w \in Workers :
          EventNos(worker[w].feature_big.rows)
             \cup EventNos(worker[w].retro_big.rows)
                \subseteq EventNos(worker[w].truth_big.rows)
    /\ \A n \in DOMAIN shards :
          TableEventNos(shards[n], Pulsemap)
             \cup TableEventNos(shards[n], "RetroReco")
                \subseteq TableEventNos(shards[n], "truth")
    /\ TableEventNos(final_db.tables, Pulsemap)
          \cup TableEventNos(final_db.tables, "RetroReco")
             \subseteq TableEventNos(final_db.tables, "truth")

C24_Witness ==
    /\ pc = "done"
    /\ Cardinality(TableEventNos(final_db.tables, Pulsemap)) = 2
    /\ TableEventNos(final_db.tables, "RetroReco") # {}
    /\ TableEventNos(final_db.tables, "RetroReco")
          # TableEventNos(final_db.tables, "truth")

PlaceOf(f) == CHOOSE k \in DOMAIN i3_files : i3_files[k] = f

\* C26: the file list and the GCD file list are cut at the same places: the
\* u-th GCD file of a worker is the one that stood at the place of its
\* u-th file before the split, and every frame a worker extracts is read
\* with that GCD file.
C26_FilePairedWithItsGcd ==
    /\ Len(gcd_files) = Len(i3_files)
    /\ \A i \in DOMAIN settings :
          /\ Len(settings[i].gcd_file_list) = Len(settings[i].file_list)
          /\ \A u \in DOMAIN settings[i].file_list :
                settings[i].gcd_file_list[u]
                   = gcd_files[PlaceOf(settings[i].file_list[u])]
    /\ \A w \in Workers : \A k \in DOMAIN worker[w].seen :
          worker[w].seen[k].gcd = gcd_files[PlaceOf(worker[w].seen[k].file)]

C26_Witness ==
    /\ Cardinality(Workers) = 1
    /\ i3_files = <<2, 1>>
    /\ Len(worker[0].seen) = 2
    /\ worker[0].seen[1].gcd = 2
    /\ worker[0].seen[2].gcd = 1

\* C27: every save of a worker writes a file of its own, worker-<id>-
\* <output_count>.db, that did not exist; it leaves the other temporary
\* databases as they are, holds rows of frames of that worker only, and
\* output_count goes up by one with it, so no temporary database is written
\* by two saves.
C27_OneShardPerSave ==
    [][(pc = "join" /\ shards' # shards) =>
          \E w \in Workers :
              LET name == shard_name(settings[w].id, worker[w].output_count)
              IN  /\ name \notin DOMAIN shards
                  /\ DOMAIN shards' = DOMAIN shards \cup {name}
                  /\ \A n \in DOMAIN shards : shards'[n] = shards[n]
                  /\ worker'[w].output_count = worker[w].output_count + 1
                  /\ \A v \in Workers \ {w} :
                        worker'[v].output_count = worker[v].output_count
                  /\ TableEventNos(shards'[name], "truth")
                        = { worker'[w].seen[k].event_no :
                              k \in (worker[w].n_saved + 1)
                                       ..worker'[w].n_saved }]_vars

C27_Witness ==
    /\ pc = "join"
    /\ \E w \in Workers :
          /\ worker[w].status = "running"
          /\ WorkerShards(w) = { shard_name(settings[w].id, 0),
                                 shard_name(settings[w].id, 1) }
          /\ shards[shard_name(settings[w].id, 0)]
                # shards[shard_name(settings[w].id, 1)]

\* C28: with max_dict_size >= 1 the truth buffer of a worker never holds
\* more than max_dict_size rows between two steps, every temporary
\* database has from 1 to max_dict_size truth rows, and a worker that
\* extracted no frame has written no temporary database.
C28_ShardSizeBounded ==
    config.max_dict_size >= 1 =>
        /\ \A w \in Workers :
              /\ df_len(worker[w].truth_big) <= config.max_dict_size
              /\ (Len(worker[w].seen) = 0) =>
                    /\ worker[w].output_count = 0
                    /\ \A n \in DOMAIN shards : n[1] # settings[w].id
        /\ \A n \in DOMAIN shards :
              /\ "truth" \in DOMAIN shards[n]
              /\ df_len(shards[n]["truth"]) >= 1
              /\ df_len(shards[n]["truth"]) <= config.max_dict_size

C28_Witness ==
    /\ config.max_dict_size = 2
    /\ \E n \in DOMAIN shards : df_len(shards[n]["truth"]) = 2
    /\ \E w \in Workers :
          /\ worker[w].status = "done"
          /\ worker[w].n_read = 0
          /\ WorkerShards(w) = {}

\* C29: _merge_databases on a tmp directory without temporary databases
\* creates no final database and no table, and leaves the tmp directory in
\* place.
C29_MergeOfNothing ==
    [][(pc \in {"merge", "crashed"} /\ DOMAIN shards = {}) =>
          /\ pc' = "done"
          /\ final_db' = final_db
          /\ ~final_db'.exists
          /\ final_db'.tables = NoTables
          /\ dirs' = dirs
          /\ "tmp" \in dirs'
          /\ shards' = shards]_vars

C29_Witness ==
    /\ pc = "done"
    /\ ~final_db.exists
    /\ "tmp" \in dirs
    /\ DOMAIN shards = {}
    /\ \A w \in Workers : worker[w].status = "done"

====
